---- MODULE Spec2Model ----
(***************************************************************************)
(* Model of scripts/fetch_transcript.py: a one-shot command that fetches   *)
(* a video transcript from the transcript provider and prints one JSON     *)
(* envelope on standard output.                                            *)
(*                                                                         *)
(* The process is modelled step by step (argument check, client            *)
(* construction, language-restricted fetch, unrestricted fetch, snippet    *)
(* conversion, print, exception handler).  The provider is the             *)
(* environment: what it answers to each of the calls is fixed in Init and  *)
(* ranges over every combination of success and failure.  Several          *)
(* invocations (Runs) with the same command line against the same provider *)
(* are composed, so that statements comparing two invocations can be       *)
(* checked.                                                                *)
(***************************************************************************)
EXTENDS Integers, Sequences, FiniteSets, TLC

\* ------------------------------------------------------------------ bounds
MaxArgs == 2        \* command-line arguments after the script name
MaxSnippets == 2    \* snippets in a transcript returned by the provider
NumRuns == 2        \* invocations composed side by side

Runs == 1..NumRuns

\* ------------------------------------------------------------- value sets
\* Strings that may appear as command-line arguments.
ArgStrings == {"dQw4w9WgXcQ", "de"}

\* Exceptions the provider may raise; str(e) is the message.
Exceptions ==
    { [cls |-> "NoTranscriptFound",   msg |-> "No transcripts were found"],
      [cls |-> "TranscriptsDisabled", msg |-> "Subtitles are disabled"] }

\* Snippet objects of the provider: text, start (seconds), duration (seconds).
SnippetPool ==
    { [text |-> "hello", start |-> 0, duration |-> 2],
      [text |-> "world", start |-> 2, duration |-> 3] }

\* Language codes of the transcripts the provider may return.
LanguageCodes == {"en", "de"}

RECURSIVE SeqsUpTo(_, _)
SeqsUpTo(S, n) ==
    IF n = 0 THEN {<<>>}
    ELSE LET shorter == SeqsUpTo(S, n - 1)
         IN  shorter \cup {Append(s, x) : s \in shorter, x \in S}

\* sys.argv: the script name followed by at most MaxArgs arguments.
ArgVectors == {<<"fetch_transcript.py">> \o a : a \in SeqsUpTo(ArgStrings, MaxArgs)}

\* The snippet sequences a transcript may hold.
SnippetSeqs == SeqsUpTo(SnippetPool, MaxSnippets)

\* Outcome of api.fetch(video_id, languages=[language]): a transcript in the
\* requested language, given by its snippets, or a raised exception.
RestrictedOutcomes ==
    [ok : {TRUE}, snippets : SnippetSeqs] \cup [ok : {FALSE}, exc : Exceptions]

\* Outcome of api.fetch(video_id): a transcript in a language of the
\* provider's choice, or a raised exception.
UnrestrictedOutcomes ==
    [ok : {TRUE}, snippets : SnippetSeqs, language_code : LanguageCodes]
        \cup [ok : {FALSE}, exc : Exceptions]

CtorOutcomes ==
    {[ok |-> TRUE]} \cup [ok : {FALSE}, exc : Exceptions]

NoTranscript == [snippets |-> <<>>, language_code |-> ""]
NoException == [cls |-> "", msg |-> ""]

\* ------------------------------------------------------------------ state
VARIABLES
    argv,       \* sys.argv, the same for every run
    provider,   \* what the provider answers: [ctor, lang, any]
    pc,         \* pc[r]: position of run r in the script
    video_id,   \* video_id[r]
    language,   \* language[r]
    transcript, \* transcript[r]: object returned by the successful fetch
    segments,   \* segments[r]: list built by the conversion loop
    exc,        \* exc[r]: exception bound by the outer handler
    calls,      \* calls[r]: provider fetch calls made so far, in order
    stdout,     \* stdout[r]: documents printed so far, in order
    exitCode    \* exitCode[r]: process exit status (0 unless sys.exit(1))

vars == <<argv, provider, pc, video_id, language, transcript, segments, exc,
          calls, stdout, exitCode>>

\* sys.argv[i] with the source's 0-based index.
Argv(i) == argv[i + 1]

\* ---------------------------------------------------------- pure helpers
\* str(e)
Str(e) == e.msg

\* language = sys.argv[2] if len(sys.argv) > 2 else 'en'
LanguageOffByOne(av) == IF Len(av) > 3 THEN av[3] ELSE "en"
LanguageArg(av) == IF Len(av) > 2 THEN av[3] ELSE "en"

\* {'text': snippet.text, 'start': snippet.start, 'duration': snippet.duration}
SegmentSwapped(snippet) ==
    [text |-> snippet.text, start |-> snippet.duration, duration |-> snippet.start]
Segment(snippet) ==
    [text |-> snippet.text, start |-> snippet.start, duration |-> snippet.duration]

\* for snippet in transcript.snippets: segments.append({...})
RECURSIVE AppendSegments(_, _)
AppendSegments(segs, snippets) ==
    IF snippets = <<>> THEN segs
    ELSE AppendSegments(Append(segs, Segment(Head(snippets))), Tail(snippets))

\* result = {'success': True, 'data': {...}}
SuccessEnvelope(vid, segs, lang) ==
    [success |-> TRUE,
     data |-> [videoId |-> vid, transcript |-> segs, language |-> lang]]

\* error_result = {'success': False, 'error': str(e)}
ErrorEnvelope(e) == [success |-> FALSE, error |-> Str(e)]

\* {'success': False, 'error': 'Video ID required'}
MissingIdEnvelope == [success |-> FALSE, error |-> "Video ID required"]

\* One provider call as seen by the provider.
RestrictedCall(vid, lang, ok) ==
    [video_id |-> vid, restricted |-> TRUE, languages |-> <<lang>>, ok |-> ok]
UnrestrictedCall(vid, ok) ==
    [video_id |-> vid, restricted |-> FALSE, languages |-> <<>>, ok |-> ok]

\* ------------------------------------------------------------------- Init
Init ==
    /\ argv \in ArgVectors
    /\ provider \in [ctor : CtorOutcomes, lang : RestrictedOutcomes, any : UnrestrictedOutcomes]
    /\ pc = [r \in Runs |-> "main"]
    /\ video_id = [r \in Runs |-> ""]
    /\ language = [r \in Runs |-> ""]
    /\ transcript = [r \in Runs |-> NoTranscript]
    /\ segments = [r \in Runs |-> <<>>]
    /\ exc = [r \in Runs |-> NoException]
    /\ calls = [r \in Runs |-> <<>>]
    /\ stdout = [r \in Runs |-> <<>>]
    /\ exitCode = [r \in Runs |-> 0]

\* ---------------------------------------------------------------- actions
\* __main__ with the argument-count test off by one: sys.argv[1] raises an
\* uncaught IndexError, the interpreter exits with status 1 and prints nothing
\* on standard output.
MainOffByOne(r) ==
    /\ pc[r] = "main"
    /\ IF Len(argv) < 1
       THEN /\ stdout' = [stdout EXCEPT ![r] = Append(@, MissingIdEnvelope)]
            /\ exitCode' = [exitCode EXCEPT ![r] = 1]
            /\ pc' = [pc EXCEPT ![r] = "done"]
            /\ UNCHANGED <<video_id, language>>
       ELSE IF Len(argv) < 2
       THEN /\ exitCode' = [exitCode EXCEPT ![r] = 1]
            /\ pc' = [pc EXCEPT ![r] = "done"]
            /\ UNCHANGED <<stdout, video_id, language>>
       ELSE /\ video_id' = [video_id EXCEPT ![r] = Argv(1)]
            /\ language' = [language EXCEPT ![r] = LanguageArg(argv)]
            /\ pc' = [pc EXCEPT ![r] = "api"]
            /\ UNCHANGED <<stdout, exitCode>>
    /\ UNCHANGED <<argv, provider, transcript, segments, exc, calls>>

\* __main__: argument check, then the call of fetch_transcript.
Main(r) ==
    /\ pc[r] = "main"
    /\ IF Len(argv) < 2
       THEN /\ stdout' = [stdout EXCEPT ![r] = Append(@, MissingIdEnvelope)]
            /\ exitCode' = [exitCode EXCEPT ![r] = 1]
            /\ pc' = [pc EXCEPT ![r] = "done"]
            /\ UNCHANGED <<video_id, language>>
       ELSE /\ video_id' = [video_id EXCEPT ![r] = Argv(1)]
            /\ language' = [language EXCEPT ![r] = LanguageArg(argv)]
            /\ pc' = [pc EXCEPT ![r] = "api"]
            /\ UNCHANGED <<stdout, exitCode>>
    /\ UNCHANGED <<argv, provider, transcript, segments, exc, calls>>

\* api = YouTubeTranscriptApi(), inside the outer try.
NewApi(r) ==
    /\ pc[r] = "api"
    /\ IF provider.ctor.ok
       THEN /\ pc' = [pc EXCEPT ![r] = "fetch_lang"]
            /\ UNCHANGED exc
       ELSE /\ exc' = [exc EXCEPT ![r] = provider.ctor.exc]
            /\ pc' = [pc EXCEPT ![r] = "handler"]
    /\ UNCHANGED <<argv, provider, video_id, language, transcript, segments,
                   calls, stdout, exitCode>>

\* The language-restricted fetch without the inner try: a failure goes to the
\* outer handler and no fallback is attempted.
FetchLangNoFallback(r) ==
    /\ pc[r] = "fetch_lang"
    /\ calls' = [calls EXCEPT ![r] =
                    Append(@, RestrictedCall(video_id[r], language[r], provider.lang.ok))]
    /\ IF provider.lang.ok
       THEN /\ transcript' = [transcript EXCEPT ![r] =
                    [snippets |-> provider.lang.snippets, language_code |-> language[r]]]
            /\ pc' = [pc EXCEPT ![r] = "convert"]
            /\ UNCHANGED exc
       ELSE /\ exc' = [exc EXCEPT ![r] = provider.lang.exc]
            /\ pc' = [pc EXCEPT ![r] = "handler"]
            /\ UNCHANGED transcript
    /\ UNCHANGED <<argv, provider, video_id, language, segments, stdout, exitCode>>

\* The language-restricted fetch followed by the unrestricted one whatever the
\* first returned.
FetchLangAlwaysFallback(r) ==
    /\ pc[r] = "fetch_lang"
    /\ calls' = [calls EXCEPT ![r] =
                    Append(@, RestrictedCall(video_id[r], language[r], provider.lang.ok))]
    /\ IF provider.lang.ok
       THEN transcript' = [transcript EXCEPT ![r] =
                    [snippets |-> provider.lang.snippets, language_code |-> language[r]]]
       ELSE UNCHANGED transcript
    /\ pc' = [pc EXCEPT ![r] = "fetch_any"]
    /\ UNCHANGED <<argv, provider, video_id, language, segments, exc, stdout, exitCode>>

\* transcript = api.fetch(video_id, languages=[language]); its exception is
\* caught by the inner handler and dropped.
FetchLang(r) ==
    /\ pc[r] = "fetch_lang"
    /\ calls' = [calls EXCEPT ![r] =
                    Append(@, RestrictedCall(video_id[r], language[r], provider.lang.ok))]
    /\ IF provider.lang.ok
       THEN /\ transcript' = [transcript EXCEPT ![r] =
                    [snippets |-> provider.lang.snippets, language_code |-> language[r]]]
            /\ pc' = [pc EXCEPT ![r] = "convert"]
       ELSE /\ pc' = [pc EXCEPT ![r] = "fetch_any"]
            /\ UNCHANGED transcript
    /\ UNCHANGED <<argv, provider, video_id, language, segments, exc, stdout, exitCode>>

\* The unrestricted fetch re-raising the exception of the first attempt.
FetchAnyFirstError(r) ==
    /\ pc[r] = "fetch_any"
    /\ calls' = [calls EXCEPT ![r] = Append(@, UnrestrictedCall(video_id[r], provider.any.ok))]
    /\ IF provider.any.ok
       THEN /\ transcript' = [transcript EXCEPT ![r] =
                    [snippets |-> provider.any.snippets,
                     language_code |-> provider.any.language_code]]
            /\ pc' = [pc EXCEPT ![r] = "convert"]
            /\ UNCHANGED exc
       ELSE /\ exc' = [exc EXCEPT ![r] = provider.lang.exc]
            /\ pc' = [pc EXCEPT ![r] = "handler"]
            /\ UNCHANGED transcript
    /\ UNCHANGED <<argv, provider, video_id, language, segments, stdout, exitCode>>

\* transcript = api.fetch(video_id) in the inner handler; its exception
\* reaches the outer handler.
FetchAny(r) ==
    /\ pc[r] = "fetch_any"
    /\ calls' = [calls EXCEPT ![r] = Append(@, UnrestrictedCall(video_id[r], provider.any.ok))]
    /\ IF provider.any.ok
       THEN /\ transcript' = [transcript EXCEPT ![r] =
                    [snippets |-> provider.any.snippets,
                     language_code |-> provider.any.language_code]]
            /\ pc' = [pc EXCEPT ![r] = "convert"]
            /\ UNCHANGED exc
       ELSE /\ exc' = [exc EXCEPT ![r] = provider.any.exc]
            /\ pc' = [pc EXCEPT ![r] = "handler"]
            /\ UNCHANGED transcript
    /\ UNCHANGED <<argv, provider, video_id, language, segments, stdout, exitCode>>

\* segments = []; for snippet in transcript.snippets: segments.append({...})
Convert(r) ==
    /\ pc[r] = "convert"
    /\ segments' = [segments EXCEPT ![r] = AppendSegments(<<>>, transcript[r].snippets)]
    /\ pc' = [pc EXCEPT ![r] = "emit"]
    /\ UNCHANGED <<argv, provider, video_id, language, transcript, exc, calls,
                   stdout, exitCode>>

\* The success print followed by an exit inside the outer try whose handler
\* also catches the exit: the handler runs after the envelope was printed.
EmitExitInTry(r) ==
    /\ pc[r] = "emit"
    /\ stdout' = [stdout EXCEPT ![r] =
                    Append(@, SuccessEnvelope(video_id[r], segments[r], language[r]))]
    /\ exc' = [exc EXCEPT ![r] = [cls |-> "SystemExit", msg |-> "0"]]
    /\ pc' = [pc EXCEPT ![r] = "handler"]
    /\ UNCHANGED <<argv, provider, video_id, language, transcript, segments,
                   calls, exitCode>>

\* The success print reporting the language of the transcript returned.
EmitTranscriptLanguage(r) ==
    /\ pc[r] = "emit"
    /\ stdout' = [stdout EXCEPT ![r] =
                    Append(@, SuccessEnvelope(video_id[r], segments[r],
                                              transcript[r].language_code))]
    /\ pc' = [pc EXCEPT ![r] = "done"]
    /\ UNCHANGED <<argv, provider, video_id, language, transcript, segments,
                   exc, calls, exitCode>>

\* result = {...}; print(json.dumps(result)); the script then ends normally.
Emit(r) ==
    /\ pc[r] = "emit"
    /\ stdout' = [stdout EXCEPT ![r] =
                    Append(@, SuccessEnvelope(video_id[r], segments[r], language[r]))]
    /\ pc' = [pc EXCEPT ![r] = "done"]
    /\ UNCHANGED <<argv, provider, video_id, language, transcript, segments,
                   exc, calls, exitCode>>

\* The outer handler without sys.exit(1): the script ends with status 0.
HandlerNoExit(r) ==
    /\ pc[r] = "handler"
    /\ stdout' = [stdout EXCEPT ![r] = Append(@, ErrorEnvelope(exc[r]))]
    /\ pc' = [pc EXCEPT ![r] = "done"]
    /\ UNCHANGED <<argv, provider, video_id, language, transcript, segments,
                   exc, calls, exitCode>>

\* The outer handler printing the exception together with a value that
\* differs from one process to the next (an object address, a process id).
HandlerPerProcessText(r) ==
    /\ pc[r] = "handler"
    /\ stdout' = [stdout EXCEPT ![r] =
                    Append(@, [success |-> FALSE, error |-> <<Str(exc[r]), r>>])]
    /\ exitCode' = [exitCode EXCEPT ![r] = 1]
    /\ pc' = [pc EXCEPT ![r] = "done"]
    /\ UNCHANGED <<argv, provider, video_id, language, transcript, segments,
                   exc, calls>>

\* except Exception as e: print(json.dumps(error_result)); sys.exit(1)
Handler(r) ==
    /\ pc[r] = "handler"
    /\ stdout' = [stdout EXCEPT ![r] = Append(@, ErrorEnvelope(exc[r]))]
    /\ exitCode' = [exitCode EXCEPT ![r] = 1]
    /\ pc' = [pc EXCEPT ![r] = "done"]
    /\ UNCHANGED <<argv, provider, video_id, language, transcript, segments,
                   exc, calls>>

Next ==
    \E r \in Runs :
        \/ Main(r)
        \/ NewApi(r)
        \/ FetchLang(r)
        \/ FetchAny(r)
        \/ Convert(r)
        \/ Emit(r)
        \/ Handler(r)

Spec == Init /\ [][Next]_vars

\* ------------------------------------------------------------- properties
Done(r) == pc[r] = "done"

\* The command line carries a video identifier.
HasVideoId == Len(argv) >= 2

\* The language the command line requests.
RequestedLanguage == IF Len(argv) = 2 THEN "en" ELSE argv[3]

\* The provider snippets behind a printed transcript: those of the
\* language-restricted call when it succeeded, else those of the fallback.
ProviderSnippets ==
    IF provider.lang.ok THEN provider.lang.snippets ELSE provider.any.snippets

\* t is src mapped element by element, field by field, in the same order.
MapsFieldForField(t, src) ==
    /\ Len(t) = Len(src)
    /\ \A i \in 1..Len(src) :
          /\ DOMAIN t[i] = {"text", "start", "duration"}
          /\ t[i].text = src[i].text
          /\ t[i].start = src[i].start
          /\ t[i].duration = src[i].duration

PrintedSuccess(r) == Len(stdout[r]) >= 1 /\ stdout[r][1].success

\* C1: a run never has more than one envelope on standard output, and a
\* terminated run has exactly one, whatever the arguments and whatever the
\* provider answered.
C1_ExactlyOneEnvelope ==
    \A r \in Runs :
        /\ Len(stdout[r]) <= 1
        /\ Done(r) => Len(stdout[r]) = 1

C1_Witness ==
    \E r \in Runs :
        /\ Done(r)
        /\ PrintedSuccess(r)
        /\ Len(stdout[r]) = 1
        /\ Len(calls[r]) = 1

\* C2: in a terminal state the exit code is 0 exactly when the printed
\* envelope has success = true and 1 exactly when it has success = false.
C2_ExitCodeMatchesEnvelope ==
    \A r \in Runs :
        Done(r) =>
            /\ Len(stdout[r]) >= 1
            /\ exitCode[r] \in {0, 1}
            /\ (exitCode[r] = 0) <=> stdout[r][1].success
            /\ (exitCode[r] = 1) <=> ~stdout[r][1].success

C2_Witness ==
    \E r1, r2 \in Runs :
        /\ Done(r1) /\ Done(r2)
        /\ exitCode[r1] = 1
        /\ ~stdout[r1][1].success
        /\ HasVideoId

\* C3: when the language-restricted call fails and the unrestricted call
\* succeeds, the run ends with exit code 0 and a single Success envelope built
\* from the snippets of the unrestricted call, with no error field.
C3_FallbackSucceeds ==
    \A r \in Runs :
        (/\ Done(r)
         /\ HasVideoId
         /\ provider.ctor.ok
         /\ ~provider.lang.ok
         /\ provider.any.ok)
        =>
        /\ Len(stdout[r]) = 1
        /\ stdout[r][1].success
        /\ DOMAIN stdout[r][1] = {"success", "data"}
        /\ MapsFieldForField(stdout[r][1].data.transcript,
                             provider.any.snippets)
        /\ exitCode[r] = 0

C3_Witness ==
    \E r \in Runs :
        /\ Done(r)
        /\ Len(calls[r]) = 2
        /\ ~calls[r][1].ok
        /\ calls[r][2].ok
        /\ Len(provider.any.snippets) >= 1
        /\ PrintedSuccess(r)

\* C4: when both provider calls fail, the run ends with exit code 1 and a
\* single Failure envelope whose error is the stringified exception of the
\* unrestricted call.
C4_FinalErrorReported ==
    \A r \in Runs :
        (/\ Done(r)
         /\ HasVideoId
         /\ provider.ctor.ok
         /\ ~provider.lang.ok
         /\ ~provider.any.ok)
        =>
        /\ stdout[r] = <<[success |-> FALSE, error |-> provider.any.exc.msg]>>
        /\ exitCode[r] = 1

C4_Witness ==
    \E r \in Runs :
        /\ Done(r)
        /\ Len(calls[r]) = 2
        /\ ~calls[r][1].ok
        /\ ~calls[r][2].ok
        /\ provider.lang.exc.msg # provider.any.exc.msg
        /\ ~stdout[r][1].success

\* C5: without a video identifier the run makes no provider call and does not
\* construct the client; it ends with exit code 1 and the single Failure
\* envelope "Video ID required".
C5_MissingVideoId ==
    \A r \in Runs :
        ~HasVideoId =>
            /\ calls[r] = <<>>
            /\ pc[r] \in {"main", "done"}
            /\ Done(r) =>
                  /\ stdout[r] = <<[success |-> FALSE, error |-> "Video ID required"]>>
                  /\ exitCode[r] = 1

C5_Witness ==
    \E r \in Runs :
        /\ ~HasVideoId
        /\ Done(r)
        /\ Len(stdout[r]) = 1

\* C6: the transcript of a Success envelope has the length of the provider's
\* snippet sequence and its i-th element has the text, start and duration of
\* the provider's i-th snippet.
C6_SnippetsMappedInOrder ==
    \A r \in Runs :
        (Done(r) /\ PrintedSuccess(r)) =>
            MapsFieldForField(stdout[r][1].data.transcript, ProviderSnippets)

C6_Witness ==
    \E r \in Runs :
        /\ Done(r)
        /\ PrintedSuccess(r)
        /\ Len(stdout[r][1].data.transcript) = 2
        /\ stdout[r][1].data.transcript[1] # stdout[r][1].data.transcript[2]

\* C7: a run calls the provider at most twice; the first call is the
\* language-restricted one, the second is the unrestricted one and is made
\* only after the first failed.
C7_CallDiscipline ==
    \A r \in Runs :
        /\ Len(calls[r]) <= 2
        /\ Len(calls[r]) >= 1 => calls[r][1].restricted
        /\ Len(calls[r]) = 2 => (~calls[r][2].restricted /\ ~calls[r][1].ok)
        /\ (Done(r) /\ Len(calls[r]) >= 1 /\ calls[r][1].ok) => Len(calls[r]) = 1

C7_Witness ==
    \E r \in Runs :
        /\ Done(r)
        /\ Len(calls[r]) = 2
        /\ ~calls[r][2].ok

\* C8: the language-restricted call asks for "en" when only a video
\* identifier was given and for the language argument when one was given.
C8_LanguageOfRestrictedCall ==
    \A r \in Runs :
        Len(calls[r]) >= 1 =>
            /\ Len(argv) = 2 => calls[r][1].languages = <<"en">>
            /\ Len(argv) > 2 => calls[r][1].languages = <<argv[3]>>

C8_Witness ==
    \E r \in Runs :
        /\ Len(argv) = 2
        /\ Len(calls[r]) >= 1
        /\ calls[r][1].languages = <<"en">>

C10_EnvelopeEchoesRequest ==
    \A r \in Runs :
        (Done(r) /\ PrintedSuccess(r)) =>
            /\ stdout[r][1].data.videoId = argv[2]
            /\ stdout[r][1].data.language = RequestedLanguage

C10_Witness ==
    \E r \in Runs :
        /\ Done(r)
        /\ PrintedSuccess(r)
        /\ Len(calls[r]) = 2
        /\ provider.any.language_code # stdout[r][1].data.language

====
